---------------------------- MODULE Spec2Model ----------------------------
(***************************************************************************)
(* A model of spid's sentinel package (src/unnamed/part_001, lines 1-229): *)
(* the integrity scanner (New, checksumFile, process, Scan) over a small   *)
(* file tree, and the sealed persistence (Save, Open) over one database    *)
(* file.                                                                   *)
(*                                                                         *)
(* Go values are modelled as follows.                                      *)
(*   - a path is a tuple of name components (<<1, 2>> is "1/2"); names are *)
(*     naturals, so that filepath.Walk's lexical order is numeric order;   *)
(*   - a slice is a record [nil, elems]: Go tells a nil slice from an      *)
(*     empty one, and both append and gob treat them differently;          *)
(*   - a map is a function whose DOMAIN is the key set;                    *)
(*   - an error is a string, "nil" for no error;                           *)
(*   - a time.Time is [wall, mono]: the wall-clock instant and whether the *)
(*     value carries a monotonic-clock reading.                            *)
(***************************************************************************)
EXTENDS Integers, Sequences, FiniteSets, TLC

VARIABLES
    fs,     \* the file tree: path -> [kind, data, perm]
    s,      \* the Sentinel the caller holds
    now,    \* the wall clock read by time.Now()
    disk,   \* the database file written by Save and read by Open
    last    \* the most recent call (or environment event) and what it returned

vars == <<fs, s, now, disk, last>>

---------------------------------------------------------------------------
(* Bounds of the model. *)

\* distinct file contents a file can hold
NumContents == 2
\* Scan calls per behaviour (caps the length of PriorScans)
MaxScans == 2
\* the clock stops ticking at this instant
MaxTime == 1
\* nodes of the file tree that are unreadable at the same time
MaxUnreadable == 1
\* passwords a caller may type
NumPasswords == 2
\* values crypto/rand may return for the nonce, and for the salt
NumNonces == 2
NumSalts == 2
\* stored fields of the database file the environment damages
MaxTampers == 1

---------------------------------------------------------------------------
(* Go slices. *)

NilSlice == [nil |-> TRUE, elems |-> <<>>]

MkSlice(seq) == [nil |-> FALSE, elems |-> seq]

\* append(sl, xs...): appending nothing returns sl itself (a nil slice stays
\* nil); appending something yields a non-nil slice.
GoAppend(sl, xs) ==
    IF Len(xs) = 0 THEN sl ELSE [nil |-> FALSE, elems |-> sl.elems \o xs]

---------------------------------------------------------------------------
(* The file tree.  The shape is fixed: directory 1 holds file 1/1 and      *)
(* subdirectory 1/2, which holds file 1/2/1.  Every node may be absent.    *)

DirPaths == { <<1>>, <<1, 2>> }

FilePaths == { <<1, 1>>, <<1, 2, 1>> }

Paths == DirPaths \cup FilePaths

Contents == 1 .. NumContents

\* The files whose content the environment replaces; the others are only
\* created (with content 1) and deleted.
Rewritable == { <<1, 2, 1>> }

Absent == [kind |-> "none", data |-> 0, perm |-> TRUE]

Parent(p) == SubSeq(p, 1, Len(p) - 1)

\* the parent directory of p exists (the root of the tree always does)
ParentExists(fsys, p) == IF Len(p) = 1 THEN TRUE ELSE fsys[Parent(p)].kind = "dir"

\* the nodes that exist and cannot be opened
Unreadable(fsys) == { q \in Paths : fsys[q].kind # "none" /\ ~fsys[q].perm }

\* Entries listing the names of deleted nodes as well
Entries_Stale(fsys, p) ==
    { q \in Paths : Len(q) = Len(p) + 1 /\ Parent(q) = p }

\* the entries of directory p that exist
Entries(fsys, p) ==
    { q \in Paths : Len(q) = Len(p) + 1 /\ Parent(q) = p /\ fsys[q].kind # "none" }

RECURSIVE SortedNames(_)
\* readDirNames: the entries of a directory in lexical order
SortedNames(S) ==
    IF S = {} THEN <<>>
    ELSE LET m == CHOOSE q \in S : \A r \in S : q[Len(q)] <= r[Len(r)]
         IN <<m>> \o SortedNames(S \ {m})

---------------------------------------------------------------------------
(* Digests and events. *)

evCreate == "EV_CREATE"

evModify == "EV_MODIFY"

NoErr == "nil"

\* hex.EncodeToString(sha256(content)): one 64-digit string per content,
\* never the empty string; distinct contents have distinct digests.
Sha256Hex(c) == "sha256:" \o ToString(c)

\* checksumFile(path): os.Open, io.Copy into the hash, hex of the sum.
checksumFile(fsys, path) ==
    IF fsys[path].kind = "none" THEN [sum |-> "", err |-> "ENOENT"]
    ELSE IF ~fsys[path].perm THEN [sum |-> "", err |-> "EACCES"]
    ELSE IF fsys[path].kind = "dir" THEN [sum |-> "", err |-> "EISDIR"]
    ELSE [sum |-> Sha256Hex(fsys[path].data), err |-> NoErr]

\* MapSet forgetting every other key
MapSet_Fresh(known, path, sum) == [q \in {path} |-> sum]

\* the map after known[path] = sum
MapSet(known, path, sum) ==
    [q \in (DOMAIN known) \cup {path} |-> IF q = path THEN sum ELSE known[q]]

\* processFile with the index left as it was (line 141 missing)
processFile_NoStore(fsys, known, filename) ==
    LET c == checksumFile(fsys, filename) IN
    IF c.err # NoErr THEN [evs |-> NilSlice, err |-> c.err, known |-> known]
    ELSE [evs |-> IF filename \notin DOMAIN known
                  THEN MkSlice(<<[Evtype |-> evCreate, OrigChecksum |-> "",
                                  NewChecksum |-> c.sum, File |-> filename]>>)
                  ELSE IF known[filename] # c.sum
                  THEN MkSlice(<<[Evtype |-> evModify, OrigChecksum |-> known[filename],
                                  NewChecksum |-> c.sum, File |-> filename]>>)
                  ELSE NilSlice,
          err |-> NoErr, known |-> known]

\* processFile with the new digest in both checksum fields of EV_MODIFY
processFile_OrigIsNew(fsys, known, filename) ==
    LET c == checksumFile(fsys, filename) IN
    IF c.err # NoErr THEN [evs |-> NilSlice, err |-> c.err, known |-> known]
    ELSE [evs |-> IF filename \notin DOMAIN known
                  THEN MkSlice(<<[Evtype |-> evCreate, OrigChecksum |-> "",
                                  NewChecksum |-> c.sum, File |-> filename]>>)
                  ELSE IF known[filename] # c.sum
                  THEN MkSlice(<<[Evtype |-> evModify, OrigChecksum |-> c.sum,
                                  NewChecksum |-> c.sum, File |-> filename]>>)
                  ELSE NilSlice,
          err |-> NoErr, known |-> MapSet(known, filename, c.sum)]

\* processFile with EV_CREATE lacking its NewChecksum
processFile_CreateNoSum(fsys, known, filename) ==
    LET c == checksumFile(fsys, filename) IN
    IF c.err # NoErr THEN [evs |-> NilSlice, err |-> c.err, known |-> known]
    ELSE [evs |-> IF filename \notin DOMAIN known
                  THEN MkSlice(<<[Evtype |-> evCreate, OrigChecksum |-> "",
                                  NewChecksum |-> "", File |-> filename]>>)
                  ELSE IF known[filename] # c.sum
                  THEN MkSlice(<<[Evtype |-> evModify, OrigChecksum |-> known[filename],
                                  NewChecksum |-> c.sum, File |-> filename]>>)
                  ELSE NilSlice,
          err |-> NoErr, known |-> MapSet(known, filename, c.sum)]

\* processFile storing the digest of a new file only (line 141 inside the
\* `!seen` branch)
processFile_StoreOnCreate(fsys, known, filename) ==
    LET c == checksumFile(fsys, filename) IN
    IF c.err # NoErr THEN [evs |-> NilSlice, err |-> c.err, known |-> known]
    ELSE IF filename \notin DOMAIN known
    THEN [evs |-> MkSlice(<<[Evtype |-> evCreate, OrigChecksum |-> "",
                             NewChecksum |-> c.sum, File |-> filename]>>),
          err |-> NoErr, known |-> MapSet(known, filename, c.sum)]
    ELSE [evs |-> IF known[filename] # c.sum
                  THEN MkSlice(<<[Evtype |-> evModify, OrigChecksum |-> known[filename],
                                  NewChecksum |-> c.sum, File |-> filename]>>)
                  ELSE NilSlice,
          err |-> NoErr, known |-> known]

\* processFile storing the digest of a known file only (line 141 inside the
\* `else` branch)
processFile_StoreOnModify(fsys, known, filename) ==
    LET c == checksumFile(fsys, filename) IN
    IF c.err # NoErr THEN [evs |-> NilSlice, err |-> c.err, known |-> known]
    ELSE IF filename \notin DOMAIN known
    THEN [evs |-> MkSlice(<<[Evtype |-> evCreate, OrigChecksum |-> "",
                             NewChecksum |-> c.sum, File |-> filename]>>),
          err |-> NoErr, known |-> known]
    ELSE [evs |-> IF known[filename] # c.sum
                  THEN MkSlice(<<[Evtype |-> evModify, OrigChecksum |-> known[filename],
                                  NewChecksum |-> c.sum, File |-> filename]>>)
                  ELSE NilSlice,
          err |-> NoErr, known |-> MapSet(known, filename, c.sum)]

\* processFile with `else` for `else if knownChecksum != checksum`
processFile_AlwaysModify(fsys, known, filename) ==
    LET c == checksumFile(fsys, filename) IN
    IF c.err # NoErr THEN [evs |-> NilSlice, err |-> c.err, known |-> known]
    ELSE [evs |-> IF filename \notin DOMAIN known
                  THEN MkSlice(<<[Evtype |-> evCreate, OrigChecksum |-> "",
                                  NewChecksum |-> c.sum, File |-> filename]>>)
                  ELSE MkSlice(<<[Evtype |-> evModify, OrigChecksum |-> known[filename],
                                  NewChecksum |-> c.sum, File |-> filename]>>),
          err |-> NoErr, known |-> MapSet(known, filename, c.sum)]

\* The tail of process (lines 122-143): digest the file, compare with the
\* index, emit at most one event, and store the digest unconditionally.
\* The result is [evs, err, known]: the map is updated in place, so the
\* caller sees `known` whatever process returns.
processFile(fsys, known, filename) ==
    LET c == checksumFile(fsys, filename) IN
    IF c.err # NoErr THEN [evs |-> NilSlice, err |-> c.err, known |-> known]
    ELSE LET seen == filename \in DOMAIN known
             evs == IF ~seen
                    THEN GoAppend(NilSlice,
                             <<[Evtype |-> evCreate, OrigChecksum |-> "",
                                NewChecksum |-> c.sum, File |-> filename]>>)
                    ELSE IF known[filename] # c.sum
                    THEN GoAppend(NilSlice,
                             <<[Evtype |-> evModify, OrigChecksum |-> known[filename],
                                NewChecksum |-> c.sum, File |-> filename]>>)
                    ELSE NilSlice
         IN [evs |-> evs, err |-> NoErr, known |-> MapSet(known, filename, c.sum)]

RECURSIVE process(_, _, _)
RECURSIVE walk(_, _, _, _)
RECURSIVE walkNames(_, _, _, _, _)

\* walkFn with `evs = subevs` for `evs = append(evs, subevs...)`
walkFn_Overwrite(fsys, acc, filename, path, err) ==
    IF err # NoErr THEN [acc EXCEPT !.err = err]
    ELSE IF path = filename THEN acc
    ELSE LET sub == process(fsys, acc.known, path) IN
         IF sub.err # NoErr
         THEN [evs |-> acc.evs, err |-> sub.err, known |-> sub.known]
         ELSE [evs |-> sub.evs, err |-> NoErr, known |-> sub.known]

\* The closure handed to filepath.Walk (lines 102-115) for the directory
\* `filename`, called on `path` with the error `err` Walk met there.  `acc`
\* is [evs, err, known]: the closure's captured evs and the sentinel's map.
walkFn(fsys, acc, filename, path, err) ==
    IF err # NoErr THEN [acc EXCEPT !.err = err]
    ELSE IF path = filename THEN acc
    ELSE LET sub == process(fsys, acc.known, path) IN
         IF sub.err # NoErr
         THEN [evs |-> acc.evs, err |-> sub.err, known |-> sub.known]
         ELSE [evs |-> GoAppend(acc.evs, sub.evs.elems), err |-> NoErr,
               known |-> sub.known]

\* filepath.walk(path, info, walkFn): a non-directory is handed to walkFn; a
\* directory is read (readDirNames), handed to walkFn with the read's error,
\* and then each of its names is walked in lexical order.
walk(fsys, acc, filename, path) ==
    IF fsys[path].kind # "dir" THEN walkFn(fsys, acc, filename, path, NoErr)
    ELSE LET rderr == IF fsys[path].perm THEN NoErr ELSE "EACCES"
             a1 == walkFn(fsys, acc, filename, path, rderr)
         IN IF rderr # NoErr \/ a1.err # NoErr THEN a1
            ELSE walkNames(fsys, a1, filename, SortedNames(Entries(fsys, path)), 1)

\* the loop of filepath.walk over the names of one directory, from index i
walkNames(fsys, acc, filename, names, i) ==
    IF i > Len(names) THEN acc
    ELSE LET a1 == walk(fsys, acc, filename, names[i]) IN
         IF a1.err # NoErr THEN a1
         ELSE walkNames(fsys, a1, filename, names, i + 1)

\* process (lines 94-144): stat the name; walk a directory, handing every
\* path below it to process again; digest a file.
process(fsys, known, filename) ==
    IF fsys[filename].kind = "none"
    THEN [evs |-> NilSlice, err |-> "ENOENT", known |-> known]
    ELSE IF fsys[filename].kind = "dir"
    THEN LET r == walk(fsys, [evs |-> NilSlice, err |-> NoErr, known |-> known],
                       filename, filename)
         IN IF r.err # NoErr THEN [r EXCEPT !.evs = NilSlice] ELSE r
    ELSE processFile(fsys, known, filename)

RECURSIVE scanLoop_Partial(_, _, _, _)
\* scanLoop with `return evs, err` for `return nil, err`
scanLoop_Partial(fsys, acc, watch, i) ==
    IF i > Len(watch) THEN acc
    ELSE LET r == process(fsys, acc.known, watch[i]) IN
         IF r.err # NoErr
         THEN [evs |-> acc.evs, err |-> r.err, known |-> r.known]
         ELSE scanLoop_Partial(fsys,
                               [evs |-> GoAppend(acc.evs, r.evs.elems), err |-> NoErr,
                                known |-> r.known],
                               watch, i + 1)

RECURSIVE scanLoop_Reverse(_, _, _, _)
\* scanLoop with `evs = append(ev, evs...)` for `evs = append(evs, ev...)`
scanLoop_Reverse(fsys, acc, watch, i) ==
    IF i > Len(watch) THEN acc
    ELSE LET r == process(fsys, acc.known, watch[i]) IN
         IF r.err # NoErr
         THEN [evs |-> NilSlice, err |-> r.err, known |-> r.known]
         ELSE scanLoop_Reverse(fsys,
                               [evs |-> GoAppend(r.evs, acc.evs.elems), err |-> NoErr,
                                known |-> r.known],
                               watch, i + 1)

RECURSIVE scanLoop(_, _, _, _)
\* the loop of Scan (lines 150-156) over WatchFiles from index i
scanLoop(fsys, acc, watch, i) ==
    IF i > Len(watch) THEN acc
    ELSE LET r == process(fsys, acc.known, watch[i]) IN
         IF r.err # NoErr
         THEN [evs |-> NilSlice, err |-> r.err, known |-> r.known]
         ELSE scanLoop(fsys,
                       [evs |-> GoAppend(acc.evs, r.evs.elems), err |-> NoErr,
                        known |-> r.known],
                       watch, i + 1)

---------------------------------------------------------------------------
(* The sentinel and what a call returns. *)

EmptyMap == [q \in {} |-> ""]

\* the zero value of Sentinel (what `var s Sentinel` holds)
ZeroSentinel == [WatchFiles |-> NilSlice, KnownObjects |-> EmptyMap, PriorScans |-> NilSlice]

\* New(config) (lines 68-73)
New(watchFiles) ==
    [WatchFiles |-> watchFiles, KnownObjects |-> EmptyMap, PriorScans |-> NilSlice]

NilSentinel == [nil |-> TRUE, val |-> ZeroSentinel]

\* `last` for a call: what was called with which password, and the returned
\* error, event list and *Sentinel.
Call(op, pass, err, evs, ret) ==
    [op |-> op, pass |-> pass, err |-> err, evs |-> evs, ret |-> ret]

\* `last` after a step of the environment
EnvStep(op) == Call(op, 0, NoErr, NilSlice, NilSentinel)

\* time.Now(): the wall clock, with a monotonic reading
timeNow == [wall |-> now, mono |-> TRUE]

\* the watch lists a configuration may give: nil, empty, one file, one
\* directory, a directory and a file in it (in both orders), a file twice
WatchConfigs ==
    { NilSlice, MkSlice(<<>>),
      MkSlice(<< <<1, 1>> >>),
      MkSlice(<< <<1>> >>),
      MkSlice(<< <<1>>, <<1, 1>> >>),
      MkSlice(<< <<1, 2, 1>>, <<1>> >>),
      MkSlice(<< <<1, 2, 1>>, <<1, 2, 1>> >>) }

\* Scan with the new record put in front of the history
ScanResult_Prepend(fsys, st, t) ==
    LET r == scanLoop(fsys, [evs |-> NilSlice, err |-> NoErr, known |-> st.KnownObjects],
                      st.WatchFiles.elems, 1)
    IN IF r.err # NoErr
       THEN [s |-> [st EXCEPT !.KnownObjects = r.known], evs |-> r.evs, err |-> r.err]
       ELSE [s |-> [st EXCEPT !.KnownObjects = r.known,
                              !.PriorScans = MkSlice(<<[Timestamp |-> t, Events |-> r.evs]>>
                                                     \o @.elems)],
             evs |-> r.evs, err |-> NoErr]

\* Scan with the history replaced by the new record
ScanResult_Replace(fsys, st, t) ==
    LET r == scanLoop(fsys, [evs |-> NilSlice, err |-> NoErr, known |-> st.KnownObjects],
                      st.WatchFiles.elems, 1)
    IN IF r.err # NoErr
       THEN [s |-> [st EXCEPT !.KnownObjects = r.known], evs |-> r.evs, err |-> r.err]
       ELSE [s |-> [st EXCEPT !.KnownObjects = r.known,
                              !.PriorScans = MkSlice(<<[Timestamp |-> t, Events |-> r.evs]>>)],
             evs |-> r.evs, err |-> NoErr]

\* Scan (lines 148-162)
ScanResult(fsys, st, t) ==
    LET r == scanLoop(fsys, [evs |-> NilSlice, err |-> NoErr, known |-> st.KnownObjects],
                      st.WatchFiles.elems, 1)
    IN IF r.err # NoErr
       THEN [s |-> [st EXCEPT !.KnownObjects = r.known], evs |-> r.evs, err |-> r.err]
       ELSE [s |-> [st EXCEPT !.KnownObjects = r.known,
                              !.PriorScans = GoAppend(@, <<[Timestamp |-> t, Events |-> r.evs]>>)],
             evs |-> r.evs, err |-> NoErr]

Scan ==
    /\ Len(s.PriorScans.elems) < MaxScans
    /\ LET r == ScanResult(fs, s, timeNow) IN
         /\ s' = r.s
         /\ last' = Call("Scan", 0, r.err, r.evs, NilSentinel)
    /\ UNCHANGED <<fs, now, disk>>

---------------------------------------------------------------------------
(* The environment: the files change between calls, and time passes. *)

\* a file is created, or its content replaced
WriteFile ==
    \E p \in FilePaths, c \in Contents :
        /\ p \in Rewritable \/ c = 1
        /\ ParentExists(fs, p)
        /\ ~(fs[p].kind = "file" /\ fs[p].data = c)
        /\ fs' = [fs EXCEPT ![p] = [kind |-> "file", data |-> c,
                                    perm |-> IF fs[p].kind = "file" THEN fs[p].perm ELSE TRUE]]
        /\ last' = EnvStep("env")
        /\ UNCHANGED <<s, now, disk>>

\* a file or an empty directory is deleted
Remove ==
    \E p \in Paths :
        /\ fs[p].kind # "none"
        /\ Entries(fs, p) = {}
        /\ fs' = [fs EXCEPT ![p] = Absent]
        /\ last' = EnvStep("env")
        /\ UNCHANGED <<s, now, disk>>

Mkdir ==
    \E p \in DirPaths :
        /\ fs[p].kind = "none"
        /\ ParentExists(fs, p)
        /\ fs' = [fs EXCEPT ![p] = [kind |-> "dir", data |-> 0, perm |-> TRUE]]
        /\ last' = EnvStep("env")
        /\ UNCHANGED <<s, now, disk>>

\* a file or directory is made unreadable, or readable again
Chmod ==
    \E p \in Paths :
        /\ fs[p].kind # "none"
        /\ fs[p].perm => Cardinality(Unreadable(fs)) < MaxUnreadable
        /\ fs' = [fs EXCEPT ![p].perm = ~@]
        /\ last' = EnvStep("env")
        /\ UNCHANGED <<s, now, disk>>

Tick ==
    /\ now < MaxTime
    /\ now' = now + 1
    /\ last' = EnvStep("env")
    /\ UNCHANGED <<fs, s, disk>>

---------------------------------------------------------------------------
(* encoding/gob, as Save and Open use it.  A struct field holding its zero *)
(* value is not sent, and the decoder leaves it zero; a slice of length 0  *)
(* is not sent, so it decodes as nil; a map is sent unless nil; a          *)
(* time.Time is sent as its MarshalBinary form, which drops the monotonic  *)
(* reading.                                                                *)

Sent(v, zero) == [sent |-> v # zero, val |-> v]

Recv(f, zero) == IF f.sent THEN f.val ELSE zero

\* gobEncodeEvent that never sends OrigChecksum
gobEncodeEvent_NoOrig(e) ==
    [Evtype |-> Sent(e.Evtype, ""), OrigChecksum |-> [sent |-> FALSE, val |-> ""],
     NewChecksum |-> Sent(e.NewChecksum, ""), File |-> Sent(e.File, <<>>)]

gobEncodeEvent(e) ==
    [Evtype |-> Sent(e.Evtype, ""), OrigChecksum |-> Sent(e.OrigChecksum, ""),
     NewChecksum |-> Sent(e.NewChecksum, ""), File |-> Sent(e.File, <<>>)]

gobDecodeEvent(w) ==
    [Evtype |-> Recv(w.Evtype, ""), OrigChecksum |-> Recv(w.OrigChecksum, ""),
     NewChecksum |-> Recv(w.NewChecksum, ""), File |-> Recv(w.File, <<>>)]

gobEncodeEvents(sl) ==
    [sent |-> Len(sl.elems) > 0,
     val |-> [i \in 1 .. Len(sl.elems) |-> gobEncodeEvent(sl.elems[i])]]

gobDecodeEvents(f) ==
    IF f.sent THEN MkSlice([i \in 1 .. Len(f.val) |-> gobDecodeEvent(f.val[i])])
    ELSE NilSlice

\* Time.MarshalBinary / UnmarshalBinary
gobEncodeTime(t) == [sent |-> TRUE, val |-> t.wall]

gobDecodeTime(f) == [wall |-> f.val, mono |-> FALSE]

gobEncodeScan(sc) ==
    [Timestamp |-> gobEncodeTime(sc.Timestamp), Events |-> gobEncodeEvents(sc.Events)]

gobDecodeScan(w) ==
    [Timestamp |-> gobDecodeTime(w.Timestamp), Events |-> gobDecodeEvents(w.Events)]

\* gob.NewEncoder(&encoded).Encode(s) (line 184): the bytes are `valid`
\* when they are a gob stream of a Sentinel
gobEncodeSentinel(st) ==
    [valid |-> TRUE,
     wire |-> [WatchFiles |-> [sent |-> Len(st.WatchFiles.elems) > 0,
                               val |-> st.WatchFiles.elems],
               KnownObjects |-> [sent |-> TRUE, val |-> st.KnownObjects],
               PriorScans |-> [sent |-> Len(st.PriorScans.elems) > 0,
                               val |-> [i \in 1 .. Len(st.PriorScans.elems) |->
                                           gobEncodeScan(st.PriorScans.elems[i])]]]]

\* bytes that are no gob stream
Garbage == [valid |-> FALSE, wire |-> gobEncodeSentinel(ZeroSentinel).wire]

\* gob.NewDecoder(...).Decode(&s) into a zero Sentinel (lines 223-227)
gobDecodeSentinel(bytes) ==
    IF ~bytes.valid THEN [err |-> "gob", val |-> ZeroSentinel]
    ELSE LET w == bytes.wire IN
         [err |-> NoErr,
          val |-> [WatchFiles |-> IF w.WatchFiles.sent THEN MkSlice(w.WatchFiles.val)
                                  ELSE NilSlice,
                   KnownObjects |-> Recv(w.KnownObjects, EmptyMap),
                   PriorScans |-> IF w.PriorScans.sent
                                  THEN MkSlice([i \in 1 .. Len(w.PriorScans.val) |->
                                                   gobDecodeScan(w.PriorScans.val[i])])
                                  ELSE NilSlice]]

---------------------------------------------------------------------------
(* scrypt and nacl/secretbox, idealised: the key is determined by exactly  *)
(* the password and the salt; a ciphertext and a tag are terms over what   *)
(* they were computed from, and `flip` marks a term whose bytes were       *)
(* changed afterwards.                                                     *)

scryptN == 16384

scryptP == 1

scryptR == 8

keyLen == 32

\* scrypt.Key called with the salt in the password's place
scryptKey_SaltOnly(password, salt, N, r, p, len) ==
    [password |-> salt, salt |-> salt, N |-> N, r |-> r, p |-> p, len |-> len]

\* scrypt.Key(password, salt, N, r, p, keyLen)
scryptKey(password, salt, N, r, p, len) ==
    [password |-> password, salt |-> salt, N |-> N, r |-> r, p |-> p, len |-> len]

XSalsa20(message, nonce, key) == [key |-> key, nonce |-> nonce, msg |-> message, flip |-> FALSE]

Poly1305(ct, nonce, key) == [key |-> key, nonce |-> nonce, ct |-> ct, flip |-> FALSE]

\* secretbox.Seal(out, message, &nonce, &key): out, then the tag, then the
\* ciphertext
secretboxSeal(out, message, nonce, key) ==
    LET ct == XSalsa20(message, nonce, key) IN
    [short |-> FALSE, prefix |-> out, box |-> [tag |-> Poly1305(ct, nonce, key), ct |-> ct]]

\* secretbox.Open(out, box, &nonce, &key): the tag is verified first, and
\* nothing is decrypted unless it matches
secretboxOpen(box, nonce, key) ==
    IF box.tag # Poly1305(box.ct, nonce, key) THEN [ok |-> FALSE, msg |-> Garbage]
    ELSE [ok |-> TRUE,
          msg |-> IF box.ct.key = key /\ box.ct.nonce = nonce /\ ~box.ct.flip
                  THEN box.ct.msg ELSE Garbage]

---------------------------------------------------------------------------
(* The scanner under a changing file tree. *)

\* no container: the file is missing, or holds no complete gob stream
NoContainer == <<>>

NoFile == [kind |-> "none", c |-> NoContainer]

\* the tree the behaviours start from: every node present and readable
InitFS ==
    [p \in Paths |-> IF p \in DirPaths THEN [kind |-> "dir", data |-> 0, perm |-> TRUE]
                     ELSE [kind |-> "file", data |-> 1, perm |-> TRUE]]

Init ==
    /\ fs = InitFS
    /\ \E w \in WatchConfigs : s = New(w)
    /\ now = 0
    /\ disk = NoFile
    /\ last = EnvStep("New")

Next ==
    \/ Scan
    \/ WriteFile
    \/ Remove
    \/ Mkdir
    \/ Chmod

Spec == Init /\ [][Next]_vars

---------------------------------------------------------------------------
(* Save and Open over the database file, which the environment may damage. *)

Passwords == 1 .. NumPasswords

Nonces == 1 .. NumNonces

Salts == 1 .. NumSalts

\* SentinelFile recording the salt in the Nonce field
SentinelFile_NonceIsSalt(st, password, nonce, salt) ==
    LET key == scryptKey(password, salt, scryptN, scryptR, scryptP, keyLen)
        encoded == gobEncodeSentinel(st)
    IN [Data |-> secretboxSeal(nonce, encoded, nonce, key),
        Nonce |-> salt, Salt |-> salt]

\* what Save computes before it touches the file (lines 167-190)
SentinelFile(st, password, nonce, salt) ==
    LET key == scryptKey(password, salt, scryptN, scryptR, scryptP, keyLen)
        encoded == gobEncodeSentinel(st)
    IN [Data |-> secretboxSeal(nonce, encoded, nonce, key),
        Nonce |-> nonce, Salt |-> salt]

\* Save (lines 166-199) of sentinel st over the file d.  crypto/rand may
\* fail, os.Create may fail, and the write may fail after os.Create has
\* emptied the file.  `wrote` tells whether os.Create was passed.
SaveResult(d, st, password, nonce, salt, outcome) ==
    CASE outcome = "ok" ->
            [disk |-> [kind |-> "file", c |-> SentinelFile(st, password, nonce, salt)],
             err |-> NoErr, wrote |-> TRUE]
      [] outcome = "rand" -> [disk |-> d, err |-> "EIO", wrote |-> FALSE]
      [] outcome = "create" -> [disk |-> d, err |-> "EACCES", wrote |-> FALSE]
      [] OTHER ->
            [disk |-> [kind |-> "partial", c |-> NoContainer], err |-> "ENOSPC",
             wrote |-> TRUE]

SaveOutcomes == {"ok", "rand", "create", "write"}

Save ==
    \E password \in Passwords, nonce \in Nonces, salt \in Salts, outcome \in SaveOutcomes :
        LET r == SaveResult(disk, s, password, nonce, salt, outcome) IN
        /\ disk' = r.disk
        /\ last' = Call("Save", password, r.err, NilSlice, NilSentinel)
        /\ UNCHANGED <<fs, s, now>>

\* Open (lines 202-229): what it returns for the file `d` and `password`.
\* Slicing Data below the nonce's length panics.
OpenResult(d, password) ==
    IF d.kind = "none" THEN [err |-> "ENOENT", ret |-> NilSentinel]
    ELSE IF d.kind = "partial" THEN [err |-> "gob", ret |-> NilSentinel]
    ELSE LET in == d.c
             key == scryptKey(password, in.Salt, scryptN, scryptR, scryptP, keyLen)
         IN IF in.Data.short THEN [err |-> "panic", ret |-> NilSentinel]
            ELSE LET o == secretboxOpen(in.Data.box, in.Nonce, key) IN
                 IF ~o.ok THEN [err |-> "could not decrypt sentinel", ret |-> NilSentinel]
                 ELSE LET dec == gobDecodeSentinel(o.msg) IN
                      IF dec.err # NoErr THEN [err |-> dec.err, ret |-> NilSentinel]
                      ELSE [err |-> NoErr, ret |-> [nil |-> FALSE, val |-> dec.val]]

\* A caller opens the database and, when that succeeds, goes on with the
\* sentinel it got.
Open ==
    \E password \in Passwords :
        LET r == OpenResult(disk, password) IN
        /\ last' = Call("Open", password, r.err, NilSlice, r.ret)
        /\ s' = IF r.err = NoErr THEN r.ret.val ELSE s
        /\ UNCHANGED <<fs, now, disk>>

\* the stored fields a single changed byte can lie in
Fields == {"prefix", "tag", "ct", "Nonce", "Salt"}

\* the container with one byte of `field` changed; `v` is the value a nonce
\* or salt field then holds
Changed(c, field, v) ==
    CASE field = "prefix" -> [c EXCEPT !.Data.prefix = v]
      [] field = "tag" -> [c EXCEPT !.Data.box.tag.flip = TRUE]
      [] field = "ct" -> [c EXCEPT !.Data.box.ct.flip = TRUE]
      [] field = "Nonce" -> [c EXCEPT !.Nonce = v]
      [] OTHER -> [c EXCEPT !.Salt = v]

\* the fields of c that no longer hold what Save stored: the ciphertext term
\* names the nonce and the salt it was sealed with
TamperedFields(c) ==
    { f \in Fields \cup {"short"} :
        CASE f = "prefix" -> c.Data.prefix # c.Data.box.ct.nonce
          [] f = "tag" -> c.Data.box.tag.flip
          [] f = "ct" -> c.Data.box.ct.flip
          [] f = "Nonce" -> c.Nonce # c.Data.box.ct.nonce
          [] f = "Salt" -> c.Salt # c.Data.box.ct.key.salt
          [] OTHER -> c.Data.short }

\* the environment changes one byte of the database file
Tamper ==
    \E field \in Fields, v \in 0 .. NumNonces :
        /\ disk.kind = "file"
        /\ field \notin TamperedFields(disk.c)
        /\ Cardinality(TamperedFields(disk.c)) < MaxTampers
        /\ Changed(disk.c, field, v) # disk.c
        /\ disk' = [disk EXCEPT !.c = Changed(disk.c, field, v)]
        /\ last' = EnvStep("env")
        /\ UNCHANGED <<fs, s, now>>

\* the environment cuts the file's Data short of the nonce's length
Truncate ==
    /\ disk.kind = "file"
    /\ ~disk.c.Data.short
    /\ Cardinality(TamperedFields(disk.c)) < MaxTampers
    /\ disk' = [disk EXCEPT !.c.Data.short = TRUE]
    /\ last' = EnvStep("env")
    /\ UNCHANGED <<fs, s, now>>

\* the file watched in the persistence behaviours
StorePath == <<1, 2, 1>>

\* the tree after the watched file is created with content c or its content
\* replaced by c; a write does not change the mode of a file that exists
WriteTree(fsys, c) ==
    [fsys EXCEPT ![StorePath] =
        [kind |-> "file", data |-> c,
         perm |-> IF fsys[StorePath].kind = "file" THEN fsys[StorePath].perm ELSE TRUE]]

StoreWriteFile ==
    \E c \in Contents :
        /\ disk.kind = "none"
        /\ ParentExists(fs, StorePath)
        /\ ~(fs[StorePath].kind = "file" /\ fs[StorePath].data = c)
        /\ fs' = WriteTree(fs, c)
        /\ last' = EnvStep("env")
        /\ UNCHANGED <<s, now, disk>>

StoreRemove ==
    /\ disk.kind = "none"
    /\ fs[StorePath].kind = "file"
    /\ fs' = [fs EXCEPT ![StorePath] = Absent]
    /\ last' = EnvStep("env")
    /\ UNCHANGED <<s, now, disk>>

StoreInit ==
    /\ fs = InitFS
    /\ \E w \in {MkSlice(<<>>), MkSlice(<< StorePath >>)} : s = New(w)
    /\ now = 0
    /\ disk = NoFile
    /\ last = EnvStep("New")

\* In the persistence behaviours the history is built first: the scans and
\* the changes of the watched file come before the database is first written.
StoreScan == disk.kind = "none" /\ Scan

StoreTick == disk.kind = "none" /\ Tick

StoreNext ==
    \/ StoreScan
    \/ StoreWriteFile
    \/ StoreRemove
    \/ StoreTick
    \/ Save
    \/ Open
    \/ Tamper
    \/ Truncate

StoreSpec == StoreInit /\ [][StoreNext]_vars

---------------------------------------------------------------------------
(* Vocabulary of the properties.  Every step sets `last`, so a step with   *)
(* last'.op = "Scan" is a Scan step, and a state with last.op = "Scan" is  *)
(* the state right after a Scan, the file tree being as the scan saw it.   *)

ScanFailed == last.op = "Scan" /\ last.err # NoErr

ScanSucceeded == last.op = "Scan" /\ last.err = NoErr

\* the indices of the events about path p in the event list evs
EventsFor(evs, p) == { i \in 1 .. Len(evs.elems) : evs.elems[i].File = p }

IsPrefix(w, p) == Len(w) <= Len(p) /\ SubSeq(p, 1, Len(w)) = w

\* the regular files the watch list of st reaches: named by an entry, or
\* below a directory an entry names
WatchedFiles(fsys, st) ==
    { p \in FilePaths :
        /\ fsys[p].kind = "file"
        /\ \E i \in 1 .. Len(st.WatchFiles.elems) : IsPrefix(st.WatchFiles.elems[i], p) }

\* the regular files at any depth below directory d
FilesUnder(fsys, d) ==
    { p \in FilePaths : fsys[p].kind = "file" /\ IsPrefix(d, p) /\ p # d }

Digest(fsys, p) == Sha256Hex(fsys[p].data)

---------------------------------------------------------------------------
(* C1: if Scan returns an error, KnownObjects after the call is identical  *)
(* to KnownObjects before the call, wherever the failing file stands in    *)
(* the walk.                                                               *)
C1_FailedScanKeepsIndex ==
    [][(last'.op = "Scan" /\ last'.err # NoErr) => s'.KnownObjects = s.KnownObjects]_vars

(* C2: if Scan returns an error, PriorScans is unchanged (no record is     *)
(* appended, the records it holds are the same) and the returned event     *)
(* list is nil.                                                            *)
C2_FailedScanKeepsHistory ==
    [][(last'.op = "Scan" /\ last'.err # NoErr)
          => (s'.PriorScans = s.PriorScans /\ last'.evs = NilSlice)]_vars

\* a Scan failed after the walk had already met a file (the index is not
\* empty), with a record in the history
C2_Witness ==
    /\ ScanFailed
    /\ Len(s.PriorScans.elems) > 0
    /\ Len(s.PriorScans.elems[1].Events.elems) > 0
    /\ DOMAIN s.KnownObjects # {}

(* C3: a Scan that directly follows a successful Scan, the file tree not   *)
(* having changed in between, succeeds, returns no event, and appends one  *)
(* record with an empty event list.                                        *)
C3_SecondScanIsQuiet ==
    [][(ScanSucceeded /\ last'.op = "Scan")
          => /\ last'.err = NoErr
             /\ Len(last'.evs.elems) = 0
             /\ Len(s'.PriorScans.elems) = Len(s.PriorScans.elems) + 1
             /\ Len(s'.PriorScans.elems[Len(s'.PriorScans.elems)].Events.elems) = 0
             /\ s'.KnownObjects = s.KnownObjects]_vars

\* the second of two scans found nothing although the first found a file
\* that two watch entries reach
C3_Witness ==
    /\ ScanSucceeded
    /\ Len(s.PriorScans.elems) = 2
    /\ Len(s.PriorScans.elems[1].Events.elems) > 0
    /\ Len(s.PriorScans.elems[2].Events.elems) = 0
    /\ \E p \in WatchedFiles(fs, s) :
          Cardinality({ i \in 1 .. Len(s.WatchFiles.elems) :
                          IsPrefix(s.WatchFiles.elems[i], p) }) = 2

(* C4: if a file's path is in the index with digest d1 and the file's      *)
(* digest is now d2 # d1, a successful Scan returns exactly one event for  *)
(* that path: EV_MODIFY with OrigChecksum d1 and NewChecksum d2.           *)
C4_ModifiedFileOneEvent ==
    [][(last'.op = "Scan" /\ last'.err = NoErr)
          => \A p \in DOMAIN s.KnownObjects :
                (fs[p].kind = "file" /\ Digest(fs, p) # s.KnownObjects[p])
                   => \E i \in 1 .. Len(last'.evs.elems) :
                         /\ EventsFor(last'.evs, p) = {i}
                         /\ last'.evs.elems[i] =
                               [Evtype |-> evModify, OrigChecksum |-> s.KnownObjects[p],
                                NewChecksum |-> Digest(fs, p), File |-> p]]_vars

\* a successful Scan reported a modification of a file below a directory
\* that an earlier successful Scan had indexed
C4_Witness ==
    /\ ScanSucceeded
    /\ Len(s.PriorScans.elems) = 2
    /\ \E i \in 1 .. Len(last.evs.elems) :
          /\ last.evs.elems[i].Evtype = evModify
          /\ Len(last.evs.elems[i].File) = 3
          /\ \E j \in 1 .. Len(s.PriorScans.elems[1].Events.elems) :
                /\ s.PriorScans.elems[1].Events.elems[j].File = last.evs.elems[i].File
                /\ s.PriorScans.elems[1].Events.elems[j].NewChecksum
                      = last.evs.elems[i].OrigChecksum

(* C5: for every watched regular file whose path is not a key of           *)
(* KnownObjects when Scan starts, a successful Scan returns exactly one    *)
(* event for that path: EV_CREATE with empty OrigChecksum and NewChecksum  *)
(* the digest of the file's content.                                       *)
C5_NewFileOneEvent ==
    [][(last'.op = "Scan" /\ last'.err = NoErr)
          => \A p \in WatchedFiles(fs, s) \ DOMAIN s.KnownObjects :
                \E i \in 1 .. Len(last'.evs.elems) :
                   /\ EventsFor(last'.evs, p) = {i}
                   /\ last'.evs.elems[i] =
                         [Evtype |-> evCreate, OrigChecksum |-> "",
                          NewChecksum |-> Digest(fs, p), File |-> p]]_vars

\* a successful Scan found a new file beside a known one: its events are a
\* creation and nothing else, while the history and the index are not empty
C5_Witness ==
    /\ ScanSucceeded
    /\ Len(s.PriorScans.elems) = 2
    /\ Len(last.evs.elems) = 1
    /\ last.evs.elems[1].Evtype = evCreate
    /\ Cardinality(DOMAIN s.KnownObjects) = 2

(* C6: the first Scan of a fresh Sentinel watching one directory that      *)
(* holds N regular files at any depth returns exactly N events, one        *)
(* EV_CREATE per regular file; no directory gets an event or an index      *)
(* entry.                                                                  *)
C6_DirectoryRecursion ==
    [][(/\ \E d \in DirPaths : s = New(MkSlice(<<d>>)) /\ fs[d].kind = "dir"
        /\ last'.op = "Scan" /\ last'.err = NoErr)
          => LET d == s.WatchFiles.elems[1]
                 evs == last'.evs.elems
             IN /\ Len(evs) = Cardinality(FilesUnder(fs, d))
                /\ \A p \in FilesUnder(fs, d) : Cardinality(EventsFor(last'.evs, p)) = 1
                /\ \A i \in 1 .. Len(evs) :
                      evs[i].Evtype = evCreate /\ evs[i].File \in FilesUnder(fs, d)
                /\ DOMAIN s'.KnownObjects = FilesUnder(fs, d)]_vars

\* the first Scan of directory 1 found both files, one of them in the
\* subdirectory
C6_Witness ==
    /\ ScanSucceeded
    /\ s.WatchFiles.elems = << <<1>> >>
    /\ Len(s.PriorScans.elems) = 1
    /\ Len(last.evs.elems) = 2
    /\ DOMAIN s.KnownObjects = FilePaths

---------------------------------------------------------------------------
(* Properties of the persistence behaviours (StoreSpec). *)

\* the history as a sequence of [instant, events]
Records(st) ==
    [i \in 1 .. Len(st.PriorScans.elems) |->
        [wall |-> st.PriorScans.elems[i].Timestamp.wall,
         events |-> st.PriorScans.elems[i].Events.elems]]

\* the same watch list, the same index, and the same records in the same
\* order, each with the same instant and the same events
SameState(a, b) ==
    /\ a.WatchFiles.elems = b.WatchFiles.elems
    /\ a.KnownObjects = b.KnownObjects
    /\ Records(a) = Records(b)

\* the password the container on disk was sealed with
SealPassword == disk.c.Data.box.ct.key.password

(* C7: from New on, every successful Scan adds exactly one record at the   *)
(* end of PriorScans and a failed one adds none, so that after k           *)
(* successful scans there are k records in the order the scans ran; their  *)
(* timestamps never decrease; and Open right after a successful Save with  *)
(* the same password yields the same records.                              *)
C7_HistoryAccumulates ==
    /\ Len(s.PriorScans.elems) = 0
    /\ [](\A i \in 1 .. Len(s.PriorScans.elems) :
             /\ s.PriorScans.elems[i].Timestamp.wall <= now
             /\ i > 1 => s.PriorScans.elems[i - 1].Timestamp.wall
                            <= s.PriorScans.elems[i].Timestamp.wall)
    /\ [][/\ (last'.op = "Scan" /\ last'.err = NoErr)
               => /\ Len(s'.PriorScans.elems) = Len(s.PriorScans.elems) + 1
                  /\ SubSeq(s'.PriorScans.elems, 1, Len(s.PriorScans.elems))
                        = s.PriorScans.elems
                  /\ s'.PriorScans.elems[Len(s'.PriorScans.elems)]
                        = [Timestamp |-> [wall |-> now, mono |-> TRUE],
                           Events |-> last'.evs]
          /\ (last'.op \notin {"Scan", "Open"} \/ last'.err # NoErr)
               => s'.PriorScans = s.PriorScans
          /\ (last.op = "Save" /\ last.err = NoErr /\ last'.op = "Open"
                 /\ last'.pass = last.pass)
               => last'.err = NoErr /\ Records(s') = Records(s)]_vars

\* two scans at different instants succeeded, and the history came back
\* from the database file
C7_Witness ==
    /\ last.op = "Open" /\ last.err = NoErr
    /\ Len(s.PriorScans.elems) = 2
    /\ s.PriorScans.elems[1].Timestamp.wall < s.PriorScans.elems[2].Timestamp.wall
    /\ ~s.PriorScans.elems[2].Timestamp.mono

(* C8: Open right after a successful Save with the same password succeeds  *)
(* and returns the saved state: the same WatchFiles sequence, the same     *)
(* KnownObjects, and the same ordered PriorScans, each record with its     *)
(* timestamp and its ordered events (empty checksums included).            *)
C8_SaveOpenRoundTrip ==
    [][(last.op = "Save" /\ last.err = NoErr /\ last'.op = "Open"
           /\ last'.pass = last.pass)
          => /\ last'.err = NoErr
             /\ ~last'.ret.nil
             /\ SameState(last'.ret.val, s)
             /\ s' = last'.ret.val]_vars

\* a state with a creation and a modification in its history came back
\* from the database file
C8_Witness ==
    /\ last.op = "Open" /\ last.err = NoErr
    /\ disk.kind = "file" /\ TamperedFields(disk.c) = {}
    /\ DOMAIN s.KnownObjects # {}
    /\ Len(s.PriorScans.elems) = 2
    /\ Len(s.PriorScans.elems[1].Events.elems) = 1
    /\ s.PriorScans.elems[1].Events.elems[1].OrigChecksum = ""
    /\ Len(s.PriorScans.elems[2].Events.elems) = 1
    /\ s.PriorScans.elems[2].Events.elems[1].Evtype = evModify

(* C9: for a container written by Save with password k, a change of one    *)
(* byte in any stored field (Data, its leading 24 bytes included, Nonce or *)
(* Salt) makes Open with k fail and return no state.                       *)
C9_TamperDetected ==
    (/\ last.op = "Open"
     /\ disk.kind = "file"
     /\ Cardinality(TamperedFields(disk.c)) = 1
     /\ TamperedFields(disk.c) \subseteq Fields
     /\ last.pass = SealPassword)
        => (last.err # NoErr /\ last.ret = NilSentinel)

(* C10: for a container written by Save with password k, Open with any     *)
(* other password returns an error and a nil Sentinel.                     *)
C10_WrongPasswordFails ==
    (/\ last.op = "Open"
     /\ disk.kind = "file"
     /\ TamperedFields(disk.c) = {}
     /\ last.pass # SealPassword)
        => (last.err # NoErr /\ last.ret = NilSentinel)

\* Open was refused the sealed state of a sentinel with a history, under a
\* password other than the one it was saved with
C10_Witness ==
    /\ last.op = "Open"
    /\ disk.kind = "file"
    /\ TamperedFields(disk.c) = {}
    /\ last.pass # SealPassword
    /\ last.err = "could not decrypt sentinel"
    /\ disk.c.Data.box.ct.msg.wire.PriorScans.sent

---------------------------------------------------------------------------
(* Further properties of Save, of the index and of Open. *)

(* C11: a Save that returns an error (or stops at any of its steps) leaves *)
(* the database file holding the complete container it held before.        *)
C11_FailedSaveKeepsFile ==
    [][(last'.op = "Save" /\ last'.err # NoErr /\ disk.kind = "file")
          => disk' = disk]_vars

\* the keys a step adds to the index
NewKeys == DOMAIN s'.KnownObjects \ DOMAIN s.KnownObjects

(* C12: over Scan calls (successful or failed) and changes of the file     *)
(* tree, deletions included, the key set of KnownObjects never loses a     *)
(* key, and a key is added only by a Scan, for a regular file the watch    *)
(* list reaches.                                                           *)
C12_IndexKeysGrow ==
    [][/\ DOMAIN s.KnownObjects \subseteq DOMAIN s'.KnownObjects
       /\ NewKeys # {} => last'.op = "Scan"
       /\ NewKeys \subseteq WatchedFiles(fs, s)]_vars

\* after a second Scan the index still names a file that was deleted, and
\* the scan added a key for another file
C12_Witness ==
    /\ last.op = "Scan"
    /\ Len(s.PriorScans.elems) = 2
    /\ \E p \in DOMAIN s.KnownObjects : fs[p].kind = "none"
    /\ \E i \in 1 .. Len(last.evs.elems) : last.evs.elems[i].Evtype = evCreate

\* the key Save derives for `password` and the salt stored in container c
StoredKey(c, password) == scryptKey(password, c.Salt, scryptN, scryptR, scryptP, keyLen)

(* C13 (as the code has it): every successful Save stores a container      *)
(* whose Nonce and Salt fields are exactly the nonce the state was sealed  *)
(* under and the salt the key was derived from, both drawn from            *)
(* crypto/rand; and in every state each nonce and salt value may be drawn  *)
(* with each password, whatever the sentinel and the file hold.            *)
C13_SaveRecordsNonceAndSalt ==
    /\ [](\A pw \in Passwords, n \in Nonces, sa \in Salts :
             ENABLED (/\ Save
                      /\ last'.err = NoErr /\ last'.pass = pw
                      /\ disk'.c.Nonce = n /\ disk'.c.Salt = sa))
    /\ [][(last'.op = "Save" /\ last'.err = NoErr)
             => /\ disk'.kind = "file"
                /\ disk'.c.Nonce \in Nonces
                /\ disk'.c.Salt \in Salts
                /\ disk'.c.Data.prefix = disk'.c.Nonce
                /\ ~disk'.c.Data.short
                /\ disk'.c.Data.box =
                      secretboxSeal(disk'.c.Nonce, gobEncodeSentinel(s), disk'.c.Nonce,
                                    StoredKey(disk'.c, last'.pass)).box]_vars

\* a sentinel with a history was saved under a nonce and a salt that differ
C13_Witness ==
    /\ last.op = "Save" /\ last.err = NoErr
    /\ disk.c.Nonce # disk.c.Salt
    /\ Len(s.PriorScans.elems) > 0

(* C13 (as stated): no two Save calls ever store the same Nonce or the     *)
(* same Salt.                                                              *)
C13_NoNonceOrSaltReuse ==
    [][(/\ last'.op = "Save" /\ last'.err = NoErr
        /\ disk.kind = "file" /\ TamperedFields(disk.c) = {})
          => (disk'.c.Nonce # disk.c.Nonce /\ disk'.c.Salt # disk.c.Salt)]_vars

(* C14: after every successful Scan, every regular file the watch list     *)
(* reaches (named by an entry or below a watched directory) is in          *)
(* KnownObjects with the digest of the content the scan read, whether the  *)
(* file was new, modified or unchanged.                                    *)
C14_IndexHoldsDigests ==
    ScanSucceeded
       => \A p \in WatchedFiles(fs, s) :
             p \in DOMAIN s.KnownObjects /\ s.KnownObjects[p] = Digest(fs, p)

\* a successful Scan met a modified file beside an unchanged one
C14_Witness ==
    /\ ScanSucceeded
    /\ Cardinality(WatchedFiles(fs, s)) = 2
    /\ Len(last.evs.elems) = 1
    /\ last.evs.elems[1].Evtype = evModify
    /\ s.KnownObjects[last.evs.elems[1].File] = last.evs.elems[1].NewChecksum

(* C15: Open on a malformed or truncated database file (Data shorter than  *)
(* the 24-byte nonce included) returns an error and a nil Sentinel, and    *)
(* never panics.                                                           *)
C15_MalformedFileIsAnError ==
    (/\ last.op = "Open"
     /\ \/ disk.kind = "partial"
        \/ disk.kind = "file" /\ disk.c.Data.short)
        => (last.err \notin {NoErr, "panic"} /\ last.ret = NilSentinel)

---------------------------------------------------------------------------
(* Further properties of Scan. *)

\* an event as process builds it
WellFormed(e) ==
    \/ e.Evtype = evCreate /\ e.OrigChecksum = "" /\ e.NewChecksum # ""
    \/ e.Evtype = evModify /\ e.OrigChecksum # "" /\ e.OrigChecksum # e.NewChecksum

(* C16: every event of every record of PriorScans is an EV_CREATE with     *)
(* empty OrigChecksum and non-empty NewChecksum, or an EV_MODIFY with      *)
(* non-empty OrigChecksum different from NewChecksum; and a Scan reports   *)
(* no event for a file whose digest equals its indexed digest.             *)
C16_EventsWellFormed ==
    /\ [](\A i \in 1 .. Len(s.PriorScans.elems) :
             \A j \in 1 .. Len(s.PriorScans.elems[i].Events.elems) :
                WellFormed(s.PriorScans.elems[i].Events.elems[j]))
    /\ [][last'.op = "Scan"
             => \A p \in DOMAIN s.KnownObjects :
                   (fs[p].kind = "file" /\ Digest(fs, p) = s.KnownObjects[p])
                      => EventsFor(last'.evs, p) = {}]_vars

\* the history holds a record with two creations and a record with a
\* modification
C16_Witness ==
    /\ Len(s.PriorScans.elems) = 2
    /\ Len(s.PriorScans.elems[1].Events.elems) = 2
    /\ \A j \in 1 .. 2 : s.PriorScans.elems[1].Events.elems[j].Evtype = evCreate
    /\ \E j \in 1 .. Len(s.PriorScans.elems[2].Events.elems) :
          s.PriorScans.elems[2].Events.elems[j].Evtype = evModify

(* C17: a Scan, successful or failed, never changes WatchFiles and never   *)
(* changes or reorders a record already in PriorScans; a successful Scan   *)
(* adds exactly one record at the end and a failed one adds none, so the   *)
(* earlier history is a prefix of the later one.                           *)
C17_ScanFrame ==
    [][last'.op = "Scan"
          => /\ s'.WatchFiles = s.WatchFiles
             /\ Len(s'.PriorScans.elems)
                   = Len(s.PriorScans.elems) + (IF last'.err = NoErr THEN 1 ELSE 0)
             /\ \A i \in 1 .. Len(s.PriorScans.elems) :
                   s'.PriorScans.elems[i] = s.PriorScans.elems[i]]_vars

\* a second successful Scan of a two-entry watch list, after a first one
\* that recorded events
C17_Witness ==
    /\ ScanSucceeded
    /\ Len(s.WatchFiles.elems) = 2
    /\ Len(s.PriorScans.elems) = 2
    /\ Len(s.PriorScans.elems[1].Events.elems) > 0

\* the watch entries of st that reach path p
Reaching(st, p) ==
    { i \in 1 .. Len(st.WatchFiles.elems) : IsPrefix(st.WatchFiles.elems[i], p) }

\* nothing but a deleted file stands in the way of a scan: every watch
\* entry exists, and every node at or below one is readable
Healthy(fsys, st) ==
    /\ \A i \in 1 .. Len(st.WatchFiles.elems) : fsys[st.WatchFiles.elems[i]].kind # "none"
    /\ \A q \in Unreadable(fsys) : Reaching(st, q) = {}

\* the indexed files that are gone and that only watched directories reach
DeletedUnderWatch(fsys, st) ==
    { p \in DOMAIN st.KnownObjects :
        /\ fsys[p].kind = "none"
        /\ Reaching(st, p) # {}
        /\ \A i \in Reaching(st, p) : st.WatchFiles.elems[i] # p }

(* C18: a file below a watched directory that an earlier scan indexed and  *)
(* that was then deleted does not make a Scan fail: the Scan succeeds      *)
(* (nothing else being in its way), returns no event for the deleted path, *)
(* and leaves the path's KnownObjects entry as it was.                     *)
C18_DeletedFileIsSilent ==
    [][last'.op = "Scan"
          => \A p \in DeletedUnderWatch(fs, s) :
                /\ Healthy(fs, s) => last'.err = NoErr
                /\ EventsFor(last'.evs, p) = {}
                /\ p \in DOMAIN s'.KnownObjects
                /\ s'.KnownObjects[p] = s.KnownObjects[p]]_vars

\* a Scan succeeded without events after the nested file, indexed by the
\* first scan, had been deleted
C18_Witness ==
    /\ ScanSucceeded
    /\ Len(s.PriorScans.elems) = 2
    /\ Len(last.evs.elems) = 0
    /\ <<1, 2, 1>> \in DeletedUnderWatch(fs, s)
    /\ \E j \in 1 .. Len(s.PriorScans.elems[1].Events.elems) :
          /\ s.PriorScans.elems[1].Events.elems[j].File = <<1, 2, 1>>
          /\ s.PriorScans.elems[1].Events.elems[j].NewChecksum = s.KnownObjects[<<1, 2, 1>>]

\* the first watch entry of st that reaches path p
FirstEntry(st, p) == CHOOSE i \in Reaching(st, p) : \A j \in Reaching(st, p) : i <= j

(* C19 (as the code has it): the event list a successful Scan returns is   *)
(* the Events of the record it appended last, and the events stand in      *)
(* watch-list order, each event counted with the first watch entry that    *)
(* reaches its file (the entry whose processing produced it).              *)
C19_EventsInWatchOrder ==
    [][(last'.op = "Scan" /\ last'.err = NoErr)
          => /\ s'.PriorScans.elems[Len(s'.PriorScans.elems)].Events = last'.evs
             /\ \A a, b \in 1 .. Len(last'.evs.elems) :
                   /\ Reaching(s, last'.evs.elems[a].File) # {}
                   /\ a < b => FirstEntry(s, last'.evs.elems[a].File)
                                  <= FirstEntry(s, last'.evs.elems[b].File)]_vars

\* a first Scan of the nested file and then its directory returned the
\* nested file's event before the event of the file that sorts first
C19_Witness ==
    /\ ScanSucceeded
    /\ s.WatchFiles.elems = << <<1, 2, 1>>, <<1>> >>
    /\ Len(last.evs.elems) = 2
    /\ last.evs.elems[1].File = <<1, 2, 1>>
    /\ last.evs.elems[2].File = <<1, 1>>

(* C19 (as stated): all events for files reached from WatchFiles[i]        *)
(* precede all events for files reached from WatchFiles[j] when i < j.     *)
C19_EventsByReachingEntry ==
    [][(last'.op = "Scan" /\ last'.err = NoErr)
          => \A a, b \in 1 .. Len(last'.evs.elems) :
                (/\ a # b
                 /\ \E i \in Reaching(s, last'.evs.elems[a].File) :
                       \E j \in Reaching(s, last'.evs.elems[b].File) : i < j)
                   => a < b]_vars

(* C20: in a single Scan (the file tree not changing during it) each path  *)
(* gets at most one event, also when watch entries repeat or overlap and   *)
(* when the walk of a directory visits a nested file twice.                *)
C20_OneEventPerPath ==
    ScanSucceeded
       => \A p \in FilePaths : Cardinality(EventsFor(last.evs, p)) <= 1

\* a first Scan of a directory and a file in it returned one event for
\* each of the two files, both visited twice
C20_Witness ==
    /\ ScanSucceeded
    /\ s.WatchFiles.elems = << <<1>>, <<1, 1>> >>
    /\ Len(s.PriorScans.elems) = 1
    /\ \A p \in FilePaths : Cardinality(EventsFor(last.evs, p)) = 1

---------------------------------------------------------------------------
(* The commands (src/unnamed/part_000, src/main.go).  A run is one step up *)
(* to each password prompt it waits at and one from the last prompt on,    *)
(* since the file tree and the database file may change while it waits:    *)
(* `spid init` is three steps, `spid scan` two.  One run is under way at a *)
(* time.  `s` is the sentinel the most recent run held in memory.          *)

\* `last` for a run: the command, the two password entries (0 when the
\* prompt was not reached or failed), the statement the command left from,
\* the error it returned, the exit status, and whether Save got as far as
\* os.Create on the database file.
CmdCall(op, pass, pass2, stage, err, exit, wrote) ==
    [op |-> op, pass |-> pass, pass2 |-> pass2, stage |-> stage, err |-> err,
     exit |-> exit, wrote |-> wrote]

\* main: log.Fatal(err) when the command returned an error
mainExit(err) == IF err = NoErr THEN 0 ELSE 1

\* what gopass.GetPasswd may hand back: a password, or (0) an error
PasswdEntries == Passwords \cup {0}

\* what reading the configuration may give: no file, no JSON, or a watch
\* list (absent, a file, a directory)
ConfigOutcomes ==
    { [err |-> "ENOENT", watch |-> NilSlice], [err |-> "json", watch |-> NilSlice] }
    \cup { [err |-> NoErr, watch |-> w] :
              w \in { NilSlice, MkSlice(<< StorePath >>), MkSlice(<< <<1>> >>) } }

\* os.Open(wf) succeeds (line 27): the node exists and is readable
CanOpen(fsys, wf) == fsys[wf].kind # "none" /\ fsys[wf].perm

\* the loop of lines 26-34 passes: every watch entry can be opened
Verified(fsys, cfg) ==
    \A i \in 1 .. Len(cfg.watch.elems) : CanOpen(fsys, cfg.watch.elems[i])

\* an input that matters only when the run gets far enough for it to show
\* in the outcome: drawn from S then, and one fixed value otherwise
Drawn(reached, S) == IF reached THEN S ELSE {CHOOSE x \in S : TRUE}

\* initCmd from line 36 on, for the sentinel sn of line 36: the two
\* prompts, the comparison and Save.  Nothing here reads the file tree.
initCmdPrompt(d, sn, p1, p2, nonce, salt, outcome) ==
    IF p1 = 0
    THEN [last |-> CmdCall("initCmd", 0, 0, "pass", "EIO", mainExit("EIO"), FALSE),
          disk |-> d, s |-> sn]
    ELSE IF p2 = 0
    THEN [last |-> CmdCall("initCmd", p1, 0, "pass2", "EIO", mainExit("EIO"), FALSE),
          disk |-> d, s |-> sn]
    ELSE IF p1 # p2
    THEN \* `return err` (line 48) with the nil err of the second prompt
         [last |-> CmdCall("initCmd", p1, p2, "mismatch", NoErr, mainExit(NoErr), FALSE),
          disk |-> d, s |-> sn]
    ELSE LET sv == SaveResult(d, sn, p1, nonce, salt, outcome) IN
         [last |-> CmdCall("initCmd", p1, p2, "save", sv.err, mainExit(sv.err), sv.wrote),
          disk |-> sv.disk, s |-> sn]

\* initCmd (lines 14-56) over the file tree fsys and the database file d,
\* the tree staying as it is for the whole run.  The result is the run's
\* record, the database file and the sentinel.
initCmdResult(fsys, d, st, cfg, p1, p2, nonce, salt, outcome) ==
    IF cfg.err # NoErr
    THEN [last |-> CmdCall("initCmd", 0, 0, "config", cfg.err, mainExit(cfg.err), FALSE),
          disk |-> d, s |-> st]
    ELSE IF ~Verified(fsys, cfg)
    THEN \* os.Exit(-1): the command does not return
         [last |-> CmdCall("initCmd", 0, 0, "verify", "os.Exit", 255, FALSE),
          disk |-> d, s |-> st]
    ELSE initCmdPrompt(d, New(cfg.watch), p1, p2, nonce, salt, outcome)

\* a run of `spid init` waits at the first password prompt (line 38), the
\* sentinel of line 36 in memory
Prompting == last.op = "initCmd" /\ last.stage = "prompt"

\* a run of `spid init` has read the first entry (last.pass) and waits at
\* the second prompt (line 43)
PromptingAgain == last.op = "initCmd" /\ last.stage = "prompt2"

\* a run of `spid scan` waits at its password prompt (line 60)
scanCmdPrompting == last.op = "scanCmd" /\ last.stage = "prompt"

\* a run is under way, waiting at a prompt
Waiting == Prompting \/ PromptingAgain \/ scanCmdPrompting

\* `spid init` up to the first prompt (lines 14-37): the run ends at the
\* configuration or at a watch file that cannot be opened, or it builds the
\* sentinel and waits for the password
initCmdVerify ==
    \E cfg \in ConfigOutcomes :
        /\ ~Waiting
        /\ IF cfg.err = NoErr /\ Verified(fs, cfg)
           THEN /\ last' = CmdCall("initCmd", 0, 0, "prompt", NoErr, 0, FALSE)
                /\ s' = New(cfg.watch)
           ELSE /\ last' = initCmdResult(fs, disk, ZeroSentinel, cfg, 0, 0, 1, 1, "ok").last
                /\ s' = ZeroSentinel
        /\ UNCHANGED <<fs, now, disk>>

\* `spid init` from the first prompt to the second (lines 38-42): the run
\* ends when the entry cannot be read, or it keeps the entry and waits again
initCmdPass ==
    \E p1 \in PasswdEntries :
        /\ Prompting
        /\ last' = IF p1 = 0
                   THEN initCmdPrompt(disk, s, 0, 0, 1, 1, "ok").last
                   ELSE CmdCall("initCmd", p1, 0, "prompt2", NoErr, 0, FALSE)
        /\ UNCHANGED <<fs, s, now, disk>>

\* `spid init` from the second prompt on (lines 43-56), the first entry
\* being last.pass.  The file tree may have changed while the run waited;
\* nothing after the loop of lines 26-34 reads it.
initCmd ==
    \E p2 \in PasswdEntries :
    \E outcome \in Drawn(PromptingAgain /\ last.pass = p2, SaveOutcomes) :
    \E nonce \in Drawn(PromptingAgain /\ last.pass = p2 /\ outcome = "ok", Nonces),
       salt \in Drawn(PromptingAgain /\ last.pass = p2 /\ outcome = "ok", Salts) :
        /\ PromptingAgain
        /\ LET r == initCmdPrompt(disk, s, last.pass, p2, nonce, salt, outcome) IN
           /\ last' = r.last
           /\ disk' = r.disk
           /\ s' = r.s
        /\ UNCHANGED <<fs, now>>

\* scanCmd from line 89 on: the outcome sv of Save for the scanned sentinel
scanCmdSave(p, sc, sv) ==
    [last |-> CmdCall("scanCmd", p, 0, "save", sv.err, mainExit(sv.err), sv.wrote),
     disk |-> sv.disk, s |-> sc.s]

\* scanCmd from line 68 on: the outcome sc of Scan for the opened sentinel
scanCmdScan(d, p, sc, nonce, salt, outcome) ==
    IF sc.err # NoErr
    THEN [last |-> CmdCall("scanCmd", p, 0, "scan", sc.err, mainExit(sc.err), FALSE),
          disk |-> d, s |-> sc.s]
    ELSE scanCmdSave(p, sc, SaveResult(d, sc.s, p, nonce, salt, outcome))

\* scanCmd from line 64 on: the outcome o of Open
scanCmdOpen(fsys, d, st, p, o, t, nonce, salt, outcome) ==
    IF o.err # NoErr
    THEN \* a panic in Open is not an error scanCmd returns: nothing recovers
         \* it, and the Go runtime ends the process with status 2
         [last |-> CmdCall("scanCmd", p, 0, "open", o.err,
                           IF o.err = "panic" THEN 2 ELSE mainExit(o.err), FALSE),
          disk |-> d, s |-> st]
    ELSE scanCmdScan(d, p, ScanResult(fsys, o.ret.val, t), nonce, salt, outcome)

\* scanCmd (lines 58-94): prompt, Open, Scan, print, Save
scanCmdResult(fsys, d, st, p, t, nonce, salt, outcome) ==
    IF p = 0
    THEN [last |-> CmdCall("scanCmd", 0, 0, "pass", "EIO", mainExit("EIO"), FALSE),
          disk |-> d, s |-> st]
    ELSE scanCmdOpen(fsys, d, st, p, OpenResult(d, p), t, nonce, salt, outcome)

\* the history the database file holds, when it holds a container
StoredScans(d) ==
    IF d.kind = "file" /\ d.c.Data.box.ct.msg.wire.PriorScans.sent
    THEN Len(d.c.Data.box.ct.msg.wire.PriorScans.val) ELSE 0

\* scanCmd with password p gets as far as Save
ScanSaves(fsys, d, p, t) ==
    scanCmdResult(fsys, d, ZeroSentinel, p, t, 1, 1, "ok").last.stage = "save"

\* `spid scan` up to its prompt (lines 58-59): the run prints the prompt
\* and waits for the password
scanCmdPrompt ==
    /\ ~Waiting
    /\ StoredScans(disk) < MaxScans
    /\ last' = CmdCall("scanCmd", 0, 0, "prompt", NoErr, 0, FALSE)
    /\ s' = ZeroSentinel
    /\ UNCHANGED <<fs, now, disk>>

\* `spid scan` from its prompt on (lines 60-94)
scanCmd ==
    \E p \in PasswdEntries :
    LET saves == ScanSaves(fs, disk, p, timeNow) IN
    \E outcome \in Drawn(saves, SaveOutcomes) :
    \E nonce \in Drawn(saves /\ outcome = "ok", Nonces),
       salt \in Drawn(saves /\ outcome = "ok", Salts) :
        LET r == scanCmdResult(fs, disk, ZeroSentinel, p, timeNow, nonce, salt, outcome) IN
        /\ scanCmdPrompting
        /\ last' = r.last
        /\ disk' = r.disk
        /\ s' = r.s
        /\ UNCHANGED <<fs, now>>

CmdInit ==
    /\ fs = InitFS
    /\ s = ZeroSentinel
    /\ now = 0
    /\ disk = NoFile
    /\ last = CmdCall("start", 0, 0, "", NoErr, 0, FALSE)

\* between runs, and while a run waits at its prompt (`last` then stays the
\* waiting run's), the watched file is rewritten, deleted or created again
CmdWriteFile ==
    \E c \in Contents :
        /\ ParentExists(fs, StorePath)
        /\ ~(fs[StorePath].kind = "file" /\ fs[StorePath].data = c)
        /\ fs' = WriteTree(fs, c)
        /\ last' = IF Waiting THEN last ELSE EnvStep("env")
        /\ UNCHANGED <<s, now, disk>>

CmdRemove ==
    /\ fs[StorePath].kind = "file"
    /\ fs' = [fs EXCEPT ![StorePath] = Absent]
    /\ last' = IF Waiting THEN last ELSE EnvStep("env")
    /\ UNCHANGED <<s, now, disk>>

\* the environment cuts the database file's Data short of the nonce's length
CmdTruncate ==
    /\ disk.kind = "file"
    /\ ~disk.c.Data.short
    /\ disk' = [disk EXCEPT !.c.Data.short = TRUE]
    /\ last' = IF Waiting THEN last ELSE EnvStep("env")
    /\ UNCHANGED <<fs, s, now>>

CmdNext ==
    \/ initCmdVerify
    \/ initCmdPass
    \/ initCmd
    \/ scanCmdPrompt
    \/ scanCmd
    \/ CmdTruncate
    \/ CmdWriteFile
    \/ CmdRemove

CmdSpec == CmdInit /\ [][CmdNext]_vars

\* scanCmd writes the database file only after Open and Scan succeeded
scanCmdSavesLast ==
    [][(last'.op = "scanCmd" /\ last'.stage # "prompt")
          => /\ last'.wrote
                => /\ OpenResult(disk, last'.pass).err = NoErr
                   /\ ScanResult(fs, OpenResult(disk, last'.pass).ret.val, timeNow).err
                         = NoErr
             /\ ~last'.wrote => disk' = disk]_vars

\* initCmd writes the database file only when the two entries are equal
\* (a step that leaves the run at a prompt may be the environment's, which
\* can change the database file while the run waits)
initCmdSavesOnMatch ==
    [][(last'.op = "initCmd" /\ last'.stage \notin {"prompt", "prompt2"})
          => /\ last'.wrote => (last'.pass \in Passwords /\ last'.pass = last'.pass2)
             /\ ~last'.wrote => disk' = disk]_vars

\* initCmd returns an error, and the program exits non-zero, whenever the
\* two entries differ
initCmdMismatchIsError ==
    [][(/\ last'.op = "initCmd"
        /\ last'.pass \in Passwords /\ last'.pass2 \in Passwords
        /\ last'.pass # last'.pass2)
          => (last'.err # NoErr /\ last'.exit # 0)]_vars

(* C21: scanCmd rewrites the database file only after Open and Scan both   *)
(* succeeded (a failed scan leaves the stored index and history as they    *)
(* were); initCmd writes the database only when the two password entries   *)
(* are equal, and returns a non-nil error (non-zero exit) whenever the     *)
(* entries differ.                                                         *)
C21_CommandOutcomes ==
    /\ scanCmdSavesLast
    /\ initCmdSavesOnMatch
    /\ initCmdMismatchIsError

=============================================================================
